---- MODULE Spec2Model ----
(***************************************************************************)
(* ConfScoutBot: the filter matcher, the filter conversation, subscribe /  *)
(* unsubscribe and the periodic job of the conference bot                  *)
(* (src/unnamed/part_000), subscribe / unsubscribe and the periodic job of *)
(* the earlier bot (src/conference_bot.py) and the scraper                 *)
(* (src/conference_scraper.py), over strings modelled as sequences of      *)
(* characters so that lower(), split() and "in" are computed, not assumed. *)
(***************************************************************************)
EXTENDS Integers, Sequences, FiniteSets, TLC

VARIABLES
  conference,      \* matcher probe: the conference dict handed to _matches_filters
  user_filters,    \* matcher probe: the filter dict handed to _matches_filters
  country_axis,    \* matcher probe: outcome of the country_match expression
  direction_axis,  \* matcher probe: outcome of the direction_match expression
  result,          \* matcher probe: outcome of _matches_filters
  prev_result,     \* matcher probe: outcome before the last change of user_filters
  stage,           \* matcher probe: "input", "matched" or "rematched"
  change,          \* matcher probe: "none", "added" or "toggle_on"
  users,           \* self.users: user id -> {'subscribed', 'filters'}
  users_file,      \* the users document as last written to users.json
  conferences,     \* self.conferences: conference id -> conference dict
  user_data,       \* context.user_data of each user
  conv_state,      \* the filter ConversationHandler's state of each user
  sent,            \* messages the periodic job has sent: <<user, conference>> -> count
  failed,          \* sends of the periodic job that raised: <<user, conference>> -> count
  job_runs,        \* completed runs of check_new_conferences_job
  bot_version,     \* the bot that runs: "part_000" or "conference_bot"
  response,        \* scraper: outcome of the request to confs.tech
  payload,         \* scraper: the list response.json() returns
  probes,          \* scraper: url -> outcome of check_early_bird_status
  confs_tech_conferences,  \* scraper: the list scrape_confs_tech returned
  unique_conferences,      \* scraper: the list discover_new_conferences returned
  escaped,         \* scraper: the exception that left the call, or "none"
  printed,         \* scraper: the messages printed by the call
  scrape_stage,    \* scraper: "input", "scraped", "discovered" or "upcoming"
  now,             \* scraper: datetime.now() of the call, or "none"
  upcoming,        \* scraper: the list get_upcoming_conferences_from_sources returned
  reply,           \* <<user, kind>> of the last reply a handler sent, kind "none" if it sent none
  faults,          \* whether a write of users.json can fail
  tasks,           \* event loop: the handler invocations in flight, with their local state
  running,         \* event loop: the task that holds the loop, 0 when all are suspended
  serial           \* the users data after the committed operations, applied one by one

probe_vars == <<conference, user_filters, country_axis, direction_axis, result,
                prev_result, stage, change>>

bot_vars == <<users, users_file, conferences, user_data, conv_state, sent, failed,
              job_runs, bot_version>>

scrape_vars == <<response, payload, probes, confs_tech_conferences, unique_conferences,
                 escaped, printed, scrape_stage, now, upcoming>>

io_vars == <<reply, faults>>

conc_vars == <<tasks, running, serial>>

vars == <<probe_vars, bot_vars, scrape_vars, io_vars, conc_vars>>

(***************************************************************************)
(* Bounds of the model.                                                    *)
(***************************************************************************)
\* longest selection drawn from the small option pools
MaxSel == 2
\* longest selection drawn from the full keyboards COUNTRIES / DIRECTIONS
MaxKeySel == 1
\* most conferences the store holds
MaxConfs == 2
\* most runs of the periodic job
MaxCycles == 2

(***************************************************************************)
(* Python strings: sequences of one-character strings; an emoji is one     *)
(* character, written by name ("flag_de").                                 *)
(***************************************************************************)
UpperChars == <<"A","B","C","D","E","F","G","H","I","J","K","L","M",
                "N","O","P","Q","R","S","T","U","V","W","X","Y","Z">>
LowerChars == <<"a","b","c","d","e","f","g","h","i","j","k","l","m",
                "n","o","p","q","r","s","t","u","v","w","x","y","z">>

LowerChar(c) ==
  IF \E i \in 1..Len(UpperChars) : UpperChars[i] = c
  THEN LowerChars[CHOOSE i \in 1..Len(UpperChars) : UpperChars[i] = c]
  ELSE c

\* str.lower()
lower(s) == [i \in 1..Len(s) |-> LowerChar(s[i])]

\* a in b, for strings a and b (substring test; the empty string is in every string)
IsSubstr(a, b) ==
  \E k \in 0..(Len(b) - Len(a)) : \A i \in 1..Len(a) : b[k + i] = a[i]

\* x in l, for a list l
In(x, l) == \E i \in 1..Len(l) : l[i] = x

RECURSIVE SplitFrom(_, _, _, _)
SplitFrom(s, i, cur, acc) ==
  IF i > Len(s)
  THEN (IF cur = <<>> THEN acc ELSE Append(acc, cur))
  ELSE IF s[i] = " "
       THEN SplitFrom(s, i + 1, <<>>, IF cur = <<>> THEN acc ELSE Append(acc, cur))
       ELSE SplitFrom(s, i + 1, Append(cur, s[i]), acc)

\* str.split(): the words of s, split at runs of whitespace
split(s) == SplitFrom(s, 1, <<>>, <<>>)

\* dict.get(key, default)
get(d, key, default) == IF key \in DOMAIN d THEN d[key] ELSE default

(***************************************************************************)
(* The filter keyboards.                                                   *)
(***************************************************************************)
COUNTRIES ==
  << <<"flag_us"," ","U","S","A">>,
     <<"flag_gb"," ","U","K">>,
     <<"flag_de"," ","G","e","r","m","a","n","y">>,
     <<"flag_pl"," ","P","o","l","a","n","d">>,
     <<"flag_nl"," ","N","e","t","h","e","r","l","a","n","d","s">>,
     <<"flag_es"," ","S","p","a","i","n">>,
     <<"flag_fr"," ","F","r","a","n","c","e">>,
     <<"flag_it"," ","I","t","a","l","y">>,
     <<"flag_ca"," ","C","a","n","a","d","a">>,
     <<"flag_au"," ","A","u","s","t","r","a","l","i","a">>,
     <<"globe_eu"," ","O","n","l","i","n","e">>,
     <<"globe_am"," ","A","l","l"," ","C","o","u","n","t","r","i","e","s">> >>

DIRECTIONS ==
  << <<"e_cycle"," ","A","g","i","l","e">>,
     <<"e_rocket"," ","D","e","v","O","p","s">>,
     <<"e_tube"," ","T","e","s","t","i","n","g","/","Q","A">>,
     <<"e_cloud"," ","C","l","o","u","d">>,
     <<"e_lock"," ","S","e","c","u","r","i","t","y">>,
     <<"e_chart"," ","D","a","t","a"," ","S","c","i","e","n","c","e">>,
     <<"e_robot"," ","A","I","/","M","L">>,
     <<"e_phone"," ","M","o","b","i","l","e">>,
     <<"e_web"," ","W","e","b"," ","D","e","v","e","l","o","p","m","e","n","t">>,
     <<"e_crane"," ","A","r","c","h","i","t","e","c","t","u","r","e">>,
     <<"e_case"," ","M","a","n","a","g","e","m","e","n","t">>,
     <<"e_spark"," ","A","l","l"," ","D","i","r","e","c","t","i","o","n","s">> >>


\* the sentinel options as the keyboards offer them
AllCountriesOption == COUNTRIES[Len(COUNTRIES)]
AllDirectionsOption == DIRECTIONS[Len(DIRECTIONS)]

(***************************************************************************)
(* ConferenceBot._matches_filters.  Outcomes are "True", "False" or the    *)
(* name of the exception the call raises.                                  *)
(***************************************************************************)
\* the literal "All Countries" the matcher compares with
AllCountries_other_globe == <<"globe_eu"," ","A","l","l"," ","C","o","u","n","t","r","i","e","s">>
AllCountries == <<"globe_am"," ","A","l","l"," ","C","o","u","n","t","r","i","e","s">>

\* the literal "All Directions" the matcher compares with
AllDirections == <<"e_spark"," ","A","l","l"," ","D","i","r","e","c","t","i","o","n","s">>

Bool(b) == IF b THEN "True" ELSE "False"
IsBool(r) == r \in {"True", "False"}

RECURSIVE country_any_equal(_, _, _)
country_any_equal(conf, countries, i) ==
  IF i > Len(countries) THEN "False"
  ELSE LET words == split(countries[i]) IN
       IF words = <<>> THEN "IndexError"
       ELSE IF "country" \notin DOMAIN conf THEN "KeyError"
       ELSE IF lower(words[Len(words)]) = lower(conf["country"]) THEN "True"
       ELSE country_any_equal(conf, countries, i + 1)

\* any(c.split()[-1].lower() in conference['country'].lower() for c in countries)
RECURSIVE country_any(_, _, _)
country_any(conf, countries, i) ==
  IF i > Len(countries) THEN "False"
  ELSE LET words == split(countries[i]) IN
       IF words = <<>> THEN "IndexError"
       ELSE IF "country" \notin DOMAIN conf THEN "KeyError"
       ELSE IF IsSubstr(lower(words[Len(words)]), lower(conf["country"])) THEN "True"
       ELSE country_any(conf, countries, i + 1)

country_match_sole_sentinel(conf, countries) ==
  IF countries = <<AllCountries>> THEN "True" ELSE country_any(conf, countries, 1)

\* country_match = "All Countries" in countries or any(...)
country_match(conf, countries) ==
  IF In(AllCountries, countries) THEN "True" ELSE country_any(conf, countries, 1)

\* any(d.split()[1].lower() in [dir.lower() for dir in conference['directions']]
\*     for d in directions)
RECURSIVE direction_any(_, _, _)
direction_any(conf, directions, i) ==
  IF i > Len(directions) THEN "False"
  ELSE LET words == split(directions[i]) IN
       IF Len(words) < 2 THEN "IndexError"
       ELSE IF "directions" \notin DOMAIN conf THEN "KeyError"
       ELSE IF In(lower(words[2]),
                  [j \in 1..Len(conf["directions"]) |-> lower(conf["directions"][j])])
            THEN "True"
       ELSE direction_any(conf, directions, i + 1)

\* direction_match = "All Directions" in directions or any(...)
direction_match(conf, directions) ==
  IF In(AllDirections, directions) THEN "True" ELSE direction_any(conf, directions, 1)

matches_filters_or(conf, filters) ==
  LET countries == get(filters, "countries", <<>>)
      directions == get(filters, "directions", <<>>)
      cm == country_match(conf, countries)
      dm == direction_match(conf, directions)
  IN  IF In(AllCountries, countries) /\ In(AllDirections, directions) THEN "True"
      ELSE IF ~IsBool(cm) THEN cm
      ELSE IF ~IsBool(dm) THEN dm
      ELSE Bool(cm = "True" \/ dm = "True")

matches_filters_early_bird_override(conf, filters) ==
  LET countries == get(filters, "countries", <<>>)
      directions == get(filters, "directions", <<>>)
      cm == country_match(conf, countries)
      dm == direction_match(conf, directions)
  IN  IF get(filters, "notify_early_bird", FALSE)
      THEN Bool(get(conf, "early_bird_available", FALSE))
      ELSE IF In(AllCountries, countries) /\ In(AllDirections, directions) THEN "True"
      ELSE IF ~IsBool(cm) THEN cm
      ELSE IF ~IsBool(dm) THEN dm
      ELSE Bool(cm = "True" /\ dm = "True")

\* _matches_filters(conference, user_filters)
matches_filters(conf, filters) ==
  LET countries == get(filters, "countries", <<>>)
      directions == get(filters, "directions", <<>>)
      cm == country_match(conf, countries)
      dm == direction_match(conf, directions)
  IN  IF In(AllCountries, countries) /\ In(AllDirections, directions) THEN "True"
      ELSE IF ~IsBool(cm) THEN cm
      ELSE IF ~IsBool(dm) THEN dm
      ELSE Bool(cm = "True" /\ dm = "True")

(***************************************************************************)
(* Inputs of the matcher: conference dicts and filter dicts, each key      *)
(* present or absent.                                                      *)
(***************************************************************************)
S_Germany == <<"G","e","r","m","a","n","y">>
S_Ukraine == <<"U","k","r","a","i","n","e">>
S_testing == <<"t","e","s","t","i","n","g">>
S_qa == <<"q","a">>
S_cloud_native == <<"c","l","o","u","d","-","n","a","t","i","v","e">>
S_Cloud == <<"C","l","o","u","d">>
S_QA == <<"Q","A">>

\* the empty dict, and the dict {key: v} for each v of values
EmptyDict == [k \in {} |-> TRUE]
Optional(key, values) == {EmptyDict} \cup {key :> v : v \in values}

ProbeConferences ==
  { a @@ b @@ c :
      a \in Optional("country", {S_Germany, S_Ukraine}),
      b \in Optional("directions", {<<S_testing, S_qa>>, <<S_cloud_native>>, <<S_Cloud>>}),
      c \in Optional("early_bird_available", BOOLEAN) }

\* the lists of at most n distinct elements of pool
Selections(pool, n) ==
  UNION { { s \in [1..k -> pool] : \A i, j \in 1..k : s[i] = s[j] => i = j } : k \in 0..n }

GermanyOption == COUNTRIES[3]
UKOption == COUNTRIES[2]
TestingQAOption == DIRECTIONS[3]
CloudOption == DIRECTIONS[4]

SmallCountryPool == {AllCountriesOption, GermanyOption, UKOption}
\* "QA" is a topic as conference_bot.py stores it: one word, no prefix
SmallDirectionPool == {AllDirectionsOption, TestingQAOption, CloudOption, S_QA}

Range(s) == {s[i] : i \in 1..Len(s)}

\* filter dicts of any shape a users document can hold
SmallFilters ==
  { a @@ b @@ c :
      a \in Optional("countries", Selections(SmallCountryPool, MaxSel)),
      b \in Optional("directions", Selections(SmallDirectionPool, MaxSel)),
      c \in Optional("notify_early_bird", BOOLEAN) }

\* filter dicts as the filter conversation writes them, one axis ranging over
\* the whole keyboard
KeyboardFilters ==
  { ("countries" :> a) @@ ("directions" :> b) :
      a \in Selections(Range(COUNTRIES), MaxKeySel),
      b \in {<<AllDirectionsOption>>, <<CloudOption>>} }
  \cup
  { ("countries" :> a) @@ ("directions" :> b) :
      a \in {<<AllCountriesOption>>, <<GermanyOption>>},
      b \in Selections(Range(DIRECTIONS), MaxKeySel) }

ProbeFilters == SmallFilters \cup KeyboardFilters


(***************************************************************************)
(* The bot's state: users, the users document, the conference store, the   *)
(* filter conversation.                                                    *)
(***************************************************************************)
UserIds == {"1001", "1002"}
\* the users who go through the filter conversation in the model
ConversationUsers == {"1001"}

\* the chats a user reaches the bot in: the ConversationHandler keeps one
\* conversation per chat and user, context.user_data is one dict per user
ChatIds == {"private", "group"}
PrivateChat == "private"

S_USA == <<"U","S","A">>
S_agile == <<"a","g","i","l","e">>
S_devops == <<"d","e","v","o","p","s">>
S_cloud == <<"c","l","o","u","d">>
S_Online == <<"O","n","l","i","n","e">>
S_UK == <<"U","K">>
S_Poland == <<"P","o","l","a","n","d">>
S_architecture == <<"a","r","c","h","i","t","e","c","t","u","r","e">>
S_security == <<"s","e","c","u","r","i","t","y">>

SampleIds == <<"1", "2", "3", "4", "5">>

\* _get_sample_conferences(): the keys the matcher and the job read
get_sample_conferences ==
  ("1" :> [id |-> "1", country |-> S_Germany, directions |-> <<S_agile, S_testing>>]) @@
  ("2" :> [id |-> "2", country |-> S_USA, directions |-> <<S_devops, S_cloud>>]) @@
  ("3" :> [id |-> "3", country |-> S_Online, directions |-> <<S_testing, S_qa>>]) @@
  ("4" :> [id |-> "4", country |-> S_UK,
           directions |-> <<S_cloud, S_devops, S_architecture>>]) @@
  ("5" :> [id |-> "5", country |-> S_Poland, directions |-> <<S_security, S_testing>>])

\* the default record of a new user
DefaultUser ==
  [subscribed |-> FALSE,
   filters |-> ("countries" :> <<AllCountries>>) @@ ("directions" :> <<AllDirections>>)]

\* the two bots of the repository: the one with the filter conversation and
\* the earlier one, which reads and writes users.json in every handler
BotVersions == {"part_000", "conference_bot"}

S_IT == <<"I","T">>
S_DevOps == <<"D","e","v","O","p","s">>
S_software == <<"s","o","f","t","w","a","r","e">>

\* the record subscribe of conference_bot.py writes for a user it does not know
V1NewUser ==
  [subscribed |-> TRUE,
   filters |-> ("countries" :> <<>>) @@
               ("topics" :> <<S_QA, S_testing, S_IT, S_DevOps, S_software>>) @@
               ("notify_early_bird" :> TRUE),
   subscribed_date |-> "now"]

\* users.json when the bot starts: absent, or left by conference_bot.py
UsersDocuments == {EmptyDict, "1001" :> V1NewUser}

\* ConferenceBot.__init__: the users document is absent or was written by the
\* earlier bot, and the conferences document holds the first k sample
\* conferences; conference_bot.py keeps no users in memory
BotInit ==
  /\ bot_version \in BotVersions
  /\ users_file \in UsersDocuments
  /\ users = IF bot_version = "part_000" THEN users_file ELSE EmptyDict
  /\ \E k \in 0..MaxConfs :
       conferences = [id \in {SampleIds[i] : i \in 1..k} |-> get_sample_conferences[id]]
  /\ user_data = [u \in UserIds |-> EmptyDict]
  /\ conv_state = [k \in ChatIds \X UserIds |-> "END"]
  /\ sent = [p \in UserIds \X {SampleIds[i] : i \in 1..Len(SampleIds)} |-> 0]
  /\ failed = [p \in UserIds \X {SampleIds[i] : i \in 1..Len(SampleIds)} |-> 0]
  /\ job_runs = 0
  /\ reply = <<"none", "none">>

\* no handler in flight
ConcIdle ==
  /\ tasks = <<>>
  /\ running = 0
  /\ serial = EmptyDict

\* the scraper's variables while no scraper method is called
ScrapeIdle ==
  /\ response = "none"
  /\ payload = <<>>
  /\ probes = EmptyDict
  /\ confs_tech_conferences = <<>>
  /\ unique_conferences = <<>>
  /\ escaped = "none"
  /\ printed = <<>>
  /\ scrape_stage = "idle"
  /\ now = "none"
  /\ upcoming = <<>>

\* the bot's variables while only the matcher is exercised
BotFresh ==
  /\ users = EmptyDict
  /\ users_file = EmptyDict
  /\ conferences = EmptyDict
  /\ user_data = [u \in UserIds |-> EmptyDict]
  /\ conv_state = [k \in ChatIds \X UserIds |-> "END"]
  /\ sent = [p \in UserIds \X {SampleIds[i] : i \in 1..Len(SampleIds)} |-> 0]
  /\ failed = [p \in UserIds \X {SampleIds[i] : i \in 1..Len(SampleIds)} |-> 0]
  /\ job_runs = 0
  /\ reply = <<"none", "none">>
  /\ faults = FALSE
  /\ bot_version = "part_000"

(***************************************************************************)
(* SpecMatch: the matcher applied to every input, then applied again after *)
(* a change of the filter.                                                 *)
(***************************************************************************)
InitMatch ==
  /\ conference \in ProbeConferences
  /\ user_filters \in ProbeFilters
  /\ country_axis = "none"
  /\ direction_axis = "none"
  /\ result = "none"
  /\ prev_result = "none"
  /\ stage = "input"
  /\ change = "none"
  /\ BotFresh
  /\ ScrapeIdle
  /\ ConcIdle

Evaluate(conf, filters) ==
  /\ country_axis' = country_match(conf, get(filters, "countries", <<>>))
  /\ direction_axis' = direction_match(conf, get(filters, "directions", <<>>))
  /\ result' = matches_filters(conf, filters)

\* _matches_filters(conference, user_filters)
Match ==
  /\ stage = "input"
  /\ Evaluate(conference, user_filters)
  /\ stage' = "matched"
  /\ UNCHANGED <<conference, user_filters, prev_result, change, bot_vars, scrape_vars, io_vars, conc_vars>>

\* the list l with x inserted after its first k elements
InsertAt(l, k, x) == SubSeq(l, 1, k) \o <<x>> \o SubSeq(l, k + 1, Len(l))

\* a concrete token joins an axis that holds the sentinel; the matcher runs again
AddConcreteToken(axis, sentinel, pool) ==
  /\ stage = "matched"
  /\ axis \in DOMAIN user_filters
  /\ In(sentinel, user_filters[axis])
  /\ \E tok \in pool \ {sentinel}, k \in 0..Len(user_filters[axis]) :
       /\ ~In(tok, user_filters[axis])
       /\ user_filters' = [user_filters EXCEPT ![axis] = InsertAt(@, k, tok)]
  /\ prev_result' = result
  /\ Evaluate(conference, user_filters')
  /\ stage' = "rematched"
  /\ change' = "added"
  /\ UNCHANGED <<conference, bot_vars, scrape_vars, io_vars, conc_vars>>

AddCountry == AddConcreteToken("countries", AllCountriesOption, SmallCountryPool)
AddDirection == AddConcreteToken("directions", AllDirectionsOption, SmallDirectionPool)

\* the early-bird-only toggle goes from off (absent or False) to on; the matcher
\* runs again
ToggleEarlyBirdOn ==
  /\ stage = "matched"
  /\ get(user_filters, "notify_early_bird", FALSE) = FALSE
  /\ user_filters' = ("notify_early_bird" :> TRUE) @@ user_filters
  /\ prev_result' = result
  /\ Evaluate(conference, user_filters')
  /\ stage' = "rematched"
  /\ change' = "toggle_on"
  /\ UNCHANGED <<conference, bot_vars, scrape_vars, io_vars, conc_vars>>

NextMatch == Match \/ AddCountry \/ AddDirection \/ ToggleEarlyBirdOn

SpecMatch == InitMatch /\ [][NextMatch]_vars

(***************************************************************************)
(* Properties of the matcher, checked under SpecMatch.                     *)
(***************************************************************************)
Matched == stage \in {"matched", "rematched"}
SelCountries == get(user_filters, "countries", <<>>)
SelDirections == get(user_filters, "directions", <<>>)

\* a keyboard label without its decorative prefix: what follows the first word
RECURSIVE DropLeading(_, _)
DropLeading(s, blank) ==
  IF s = <<>> THEN s
  ELSE IF (s[1] = " ") = blank THEN DropLeading(Tail(s), blank)
  ELSE s
StripPrefix(option) == DropLeading(DropLeading(DropLeading(option, TRUE), FALSE), TRUE)

\* some word of the option and the text share a substring relation, either way
Related(option, text) ==
  \E i \in 1..Len(split(option)) :
    \/ IsSubstr(lower(split(option)[i]), lower(text))
    \/ IsSubstr(lower(text), lower(split(option)[i]))

\* the conference carries none of the selected topics
CarriesNoSelectedTopic ==
  \/ "directions" \notin DOMAIN conference
  \/ \A i \in 1..Len(SelDirections), j \in 1..Len(conference["directions"]) :
       ~Related(SelDirections[i], conference["directions"][j])

\* the conference lies outside the selected countries
OutsideSelectedCountries ==
  \/ "country" \notin DOMAIN conference
  \/ \A i \in 1..Len(SelCountries) : ~Related(SelCountries[i], conference["country"])

\* C1: with the "all countries" sentinel among the selected countries and the
\* "all directions" sentinel among the selected directions, _matches_filters
\* returns True whatever keys the conference dict has or lacks.
C1_AllAllMatches ==
  (Matched /\ In(AllCountriesOption, SelCountries) /\ In(AllDirectionsOption, SelDirections))
    => result = "True"

C1_Witness ==
  /\ stage = "matched"
  /\ In(AllCountriesOption, SelCountries)
  /\ In(AllDirectionsOption, SelDirections)
  /\ "country" \notin DOMAIN conference
  /\ "directions" \notin DOMAIN conference
  /\ result = "True"

C3_TopicAxisSubstring ==
  (/\ Matched
   /\ Range(SelDirections) \subseteq Range(DIRECTIONS)
   /\ \/ In(AllDirectionsOption, SelDirections)
      \/ /\ "directions" \in DOMAIN conference
         /\ \E i \in 1..Len(SelDirections), j \in 1..Len(conference["directions"]) :
              IsSubstr(lower(StripPrefix(SelDirections[i])),
                       lower(conference["directions"][j])))
    => direction_axis = "True"

\* C4: for selections made of COUNTRIES options, the country axis passes exactly
\* when the "all countries" sentinel is selected or the conference's country,
\* case-insensitively, contains a selected token stripped of its prefix.
C4_CountryAxis ==
  (Matched /\ Range(SelCountries) \subseteq Range(COUNTRIES)) =>
    ((country_axis = "True") <=>
       \/ In(AllCountriesOption, SelCountries)
       \/ /\ "country" \in DOMAIN conference
          /\ \E i \in 1..Len(SelCountries) :
               IsSubstr(lower(StripPrefix(SelCountries[i])), lower(conference["country"])))

\* a concrete keyboard country is selected, the conference's country strictly
\* contains its token, and the axis passed
C4_Witness ==
  /\ stage = "matched"
  /\ SelCountries = <<UKOption>>
  /\ "country" \in DOMAIN conference
  /\ conference["country"] = S_Ukraine
  /\ country_axis = "True"

\* C5: with the early-bird-only toggle set, the matcher returns True only for a
\* conference whose early_bird_available is True; absent or False never matches.
C5_EarlyBirdAxis ==
  (Matched /\ get(user_filters, "notify_early_bird", FALSE) = TRUE /\ result = "True")
    => get(conference, "early_bird_available", FALSE) = TRUE

\* C6: the matcher is total: it returns a boolean for every conference dict and
\* every stored filter dict, and a missing field makes its axis fail unless the
\* axis is set to "all".
C6_Total ==
  Matched =>
    /\ IsBool(result)
    /\ ("country" \notin DOMAIN conference /\ ~In(AllCountriesOption, SelCountries))
         => result = "False"
    /\ ("directions" \notin DOMAIN conference /\ ~In(AllDirectionsOption, SelDirections))
         => result = "False"

\* C7: adding concrete tokens to an axis that holds the "all" sentinel leaves
\* the matcher's result unchanged.
C7_SentinelSupersedes ==
  (stage = "rematched" /\ change = "added") => result = prev_result

C7_Witness ==
  /\ stage = "rematched"
  /\ change = "added"
  /\ SelCountries = <<AllCountriesOption, GermanyOption>>
  /\ "country" \in DOMAIN conference
  /\ conference["country"] = S_Ukraine
  /\ ~In(AllDirectionsOption, SelDirections)
  /\ result = "True"

\* C8: switching the early-bird-only toggle from off to on never turns a
\* non-match into a match.
C8_ToggleMonotone ==
  (stage = "rematched" /\ change = "toggle_on" /\ result = "True") => prev_result = "True"

C8_Witness ==
  /\ stage = "rematched"
  /\ change = "toggle_on"
  /\ user_filters["notify_early_bird"] = TRUE
  /\ ~In(AllCountriesOption, SelCountries)
  /\ result = "True"
  /\ prev_result = "True"

(***************************************************************************)
(* The bot's handlers.  Handlers run one at a time to completion.          *)
(***************************************************************************)
S_country_ == <<"c","o","u","n","t","r","y","_">>
S_direction_ == <<"d","i","r","e","c","t","i","o","n","_">>
S_done == <<"d","o","n","e">>

\* str.replace(old, ""): every occurrence of old removed, left to right
RECURSIVE remove_all(_, _)
remove_all(s, old) ==
  IF Len(s) < Len(old) THEN s
  ELSE IF SubSeq(s, 1, Len(old)) = old
       THEN remove_all(SubSeq(s, Len(old) + 1, Len(s)), old)
       ELSE <<s[1]>> \o remove_all(Tail(s), old)

\* list.remove(x): the first occurrence of x removed
remove(l, x) ==
  LET i == CHOOSE k \in 1..Len(l) : l[k] = x /\ \A j \in 1..(k - 1) : l[j] # x
  IN  SubSeq(l, 1, i - 1) \o SubSeq(l, i + 1, Len(l))

\* the keyboard buttons pressed in the model
PressedCountries == {GermanyOption, AllCountriesOption}
PressedDirections == {CloudOption, AllDirectionsOption}

\* callback_data of the buttons of the country keyboard and of the direction keyboard
CountryButtons == {S_country_ \o c : c \in PressedCountries} \cup {S_country_ \o S_done}
DirectionButtons ==
  {S_direction_ \o d : d \in PressedDirections} \cup {S_direction_ \o S_done}

\* the outcomes of a write of users.json: TRUE when the document was written
WriteOutcomes == IF faults THEN {TRUE, FALSE} ELSE {TRUE}

\* _save_json(self.users_file, self.users): a failed write is logged and
\* the call returns as after a write
save_json(data) ==
  \E written \in WriteOutcomes : users_file' = IF written THEN data ELSE users_file

\* self.users with a default record for user_id when it has none
WithDefault(user_id) ==
  IF user_id \in DOMAIN users THEN users ELSE (user_id :> DefaultUser) @@ users

\* /start
start_command(user_id) ==
  /\ bot_version = "part_000"
  /\ reply' = <<user_id, "welcome">>
  /\ IF user_id \notin DOMAIN users
     THEN users' = WithDefault(user_id) /\ save_json(users')
     ELSE UNCHANGED <<users, users_file>>
  /\ UNCHANGED <<conferences, user_data, conv_state, sent, failed, job_runs,
               bot_version, faults, probe_vars, scrape_vars,
               conc_vars>>

\* /subscribe
subscribe_command(user_id) ==
  /\ bot_version = "part_000"
  /\ reply' = <<user_id, "subscribed">>
  /\ users' = [WithDefault(user_id) EXCEPT ![user_id].subscribed = TRUE]
  /\ save_json(users')
  /\ UNCHANGED <<conferences, user_data, conv_state, sent, failed, job_runs,
               bot_version, faults, probe_vars, scrape_vars,
               conc_vars>>

\* /unsubscribe
unsubscribe_command_drops_record(user_id) ==
  /\ bot_version = "part_000"
  /\ reply' = <<user_id, "unsubscribed">>
  /\ IF user_id \in DOMAIN users
     THEN users' = [v \in DOMAIN users \ {user_id} |-> users[v]] /\ save_json(users')
     ELSE UNCHANGED <<users, users_file>>
  /\ UNCHANGED <<conferences, user_data, conv_state, sent, failed, job_runs,
               bot_version, faults, probe_vars, scrape_vars,
               conc_vars>>

unsubscribe_command(user_id) ==
  /\ bot_version = "part_000"
  /\ reply' = <<user_id, "unsubscribed">>
  /\ IF user_id \in DOMAIN users
     THEN users' = [users EXCEPT ![user_id].subscribed = FALSE] /\ save_json(users')
     ELSE UNCHANGED <<users, users_file>>
  /\ UNCHANGED <<conferences, user_data, conv_state, sent, failed, job_runs,
               bot_version, faults, probe_vars, scrape_vars,
               conc_vars>>

\* /filters: the entry point of the filter conversation
filters_command(chat_id, user_id) ==
  /\ bot_version = "part_000"
  /\ reply' = <<user_id, "select_countries">>
  /\ conv_state[<<chat_id, user_id>>] = "END"
  /\ user_data' = [user_data EXCEPT
                     ![user_id] = ("selected_countries" :> <<>>) @@ @]
  /\ conv_state' = [conv_state EXCEPT ![<<chat_id, user_id>>] = "SELECTING_COUNTRY"]
  /\ UNCHANGED <<users, users_file, conferences, sent, failed, job_runs,
               bot_version, faults, probe_vars, scrape_vars,
               conc_vars>>

\* the toggle of select_country / select_direction: the selection after a press
\* of option, with the axis's "all" sentinel
toggle_selection_keeps_sentinel(selected, option, sentinel) ==
  IF option = sentinel THEN <<sentinel>>
  ELSE IF In(option, selected) THEN remove(selected, option) ELSE Append(selected, option)

toggle_selection(selected, option, sentinel) ==
  IF option = sentinel THEN <<sentinel>>
  ELSE LET rest == IF In(sentinel, selected) THEN remove(selected, sentinel) ELSE selected
       IN  IF In(option, rest) THEN remove(rest, option) ELSE Append(rest, option)

\* a button pressed while the conversation is in SELECTING_COUNTRY
select_country(chat_id, user_id, data) ==
  /\ bot_version = "part_000"
  /\ conv_state[<<chat_id, user_id>>] = "SELECTING_COUNTRY"
  /\ IF data = S_country_ \o S_done
     THEN LET selected == get(user_data[user_id], "selected_countries", <<>>)
              chosen == IF selected = <<>> THEN <<AllCountries>> ELSE selected
          IN  /\ user_data' = [user_data EXCEPT
                    ![user_id] = ("selected_countries" :> chosen) @@
                                 ("selected_directions" :> <<>>) @@ @]
              /\ conv_state' = [conv_state EXCEPT ![<<chat_id, user_id>>] = "SELECTING_DIRECTION"]
              /\ reply' = <<user_id, "select_directions">>
     ELSE LET country == remove_all(data, S_country_)
              selected == get(user_data[user_id], "selected_countries", <<>>)
          IN  /\ user_data' = [user_data EXCEPT
                    ![user_id] = ("selected_countries" :>
                                    toggle_selection(selected, country, AllCountries)) @@ @]
              /\ UNCHANGED conv_state
              /\ reply' = <<user_id, "selected">>
  /\ UNCHANGED <<users, users_file, conferences, sent, failed, job_runs,
               bot_version, faults, probe_vars, scrape_vars,
               conc_vars>>

\* a button pressed while the conversation is in SELECTING_DIRECTION
select_direction_merges(chat_id, user_id, data) ==
  /\ bot_version = "part_000"
  /\ conv_state[<<chat_id, user_id>>] = "SELECTING_DIRECTION"
  /\ IF data = S_direction_ \o S_done
     THEN LET selected == get(user_data[user_id], "selected_directions", <<>>)
              directions == IF selected = <<>> THEN <<AllDirections>> ELSE selected
              countries == get(user_data[user_id], "selected_countries", <<AllCountries>>)
              existing == IF user_id \in DOMAIN users THEN users
                          ELSE (user_id :> [subscribed |-> FALSE, filters |-> EmptyDict])
                               @@ users
          IN  /\ user_data' = [user_data EXCEPT
                    ![user_id] = ("selected_directions" :> directions) @@ @]
              /\ users' = [existing EXCEPT
                    ![user_id].filters = ("countries" :> countries) @@
                                         ("directions" :> directions) @@ @]
              /\ save_json(users')
              /\ conv_state' = [conv_state EXCEPT ![<<chat_id, user_id>>] = "END"]
              /\ reply' = <<user_id, "filters_saved">>
     ELSE LET direction == remove_all(data, S_direction_)
              selected == get(user_data[user_id], "selected_directions", <<>>)
          IN  /\ user_data' = [user_data EXCEPT
                    ![user_id] = ("selected_directions" :>
                                    toggle_selection(selected, direction, AllDirections)) @@ @]
              /\ UNCHANGED <<users, users_file, conv_state>>
              /\ reply' = <<user_id, "selected">>
  /\ UNCHANGED <<conferences, sent, failed, job_runs,
               bot_version, faults, probe_vars, scrape_vars,
               conc_vars>>

select_direction(chat_id, user_id, data) ==
  /\ bot_version = "part_000"
  /\ conv_state[<<chat_id, user_id>>] = "SELECTING_DIRECTION"
  /\ IF data = S_direction_ \o S_done
     THEN LET selected == get(user_data[user_id], "selected_directions", <<>>)
              directions == IF selected = <<>> THEN <<AllDirections>> ELSE selected
              countries == get(user_data[user_id], "selected_countries", <<AllCountries>>)
              existing == IF user_id \in DOMAIN users THEN users
                          ELSE (user_id :> [subscribed |-> FALSE, filters |-> EmptyDict])
                               @@ users
          IN  /\ user_data' = [user_data EXCEPT
                    ![user_id] = ("selected_directions" :> directions) @@ @]
              /\ users' = [existing EXCEPT
                    ![user_id].filters = ("countries" :> countries) @@
                                         ("directions" :> directions)]
              /\ save_json(users')
              /\ conv_state' = [conv_state EXCEPT ![<<chat_id, user_id>>] = "END"]
              /\ reply' = <<user_id, "filters_saved">>
     ELSE LET direction == remove_all(data, S_direction_)
              selected == get(user_data[user_id], "selected_directions", <<>>)
          IN  /\ user_data' = [user_data EXCEPT
                    ![user_id] = ("selected_directions" :>
                                    toggle_selection(selected, direction, AllDirections)) @@ @]
              /\ UNCHANGED <<users, users_file, conv_state>>
              /\ reply' = <<user_id, "selected">>
  /\ UNCHANGED <<conferences, sent, failed, job_runs,
               bot_version, faults, probe_vars, scrape_vars,
               conc_vars>>

\* /cancel: the fallback of the filter conversation
cancel_command(chat_id, user_id) ==
  /\ bot_version = "part_000"
  /\ reply' = <<user_id, "cancelled">>
  /\ conv_state[<<chat_id, user_id>>] # "END"
  /\ conv_state' = [conv_state EXCEPT ![<<chat_id, user_id>>] = "END"]
  /\ UNCHANGED <<users, users_file, conferences, user_data, sent, failed, job_runs,
               bot_version, faults, probe_vars, scrape_vars,
               conc_vars>>

JobNotifications_every_match(user_id) ==
  {c \in DOMAIN conferences :
     matches_filters(conferences[c], users[user_id].filters) = "True"}

\* the conferences about which one run of the job sends user_id a message: the
\* body of the loop converts the id and sends nothing
JobNotifications(user_id) == {}

check_new_conferences_job_ignores_subscription ==
  /\ bot_version = "part_000"
  /\ job_runs < MaxCycles
  /\ sent' = [p \in DOMAIN sent |->
                IF p[1] \in DOMAIN users /\ p[2] \in DOMAIN conferences
                THEN sent[p] + 1 ELSE sent[p]]
  /\ job_runs' = job_runs + 1
  /\ UNCHANGED <<users, users_file, conferences, user_data, conv_state, failed,
               bot_version, probe_vars, scrape_vars, io_vars, conc_vars>>

\* check_new_conferences_job: one run over self.users
check_new_conferences_job ==
  /\ bot_version = "part_000"
  /\ job_runs < MaxCycles
  /\ LET due == {p \in DOMAIN sent : /\ p[1] \in DOMAIN users
                                      /\ users[p[1]].subscribed
                                      /\ p[2] \in JobNotifications(p[1])}
     IN  \E raised \in SUBSET due :
           /\ sent' = [p \in DOMAIN sent |->
                         IF p \in due \ raised THEN sent[p] + 1 ELSE sent[p]]
           /\ failed' = [p \in DOMAIN failed |->
                           IF p \in raised THEN failed[p] + 1 ELSE failed[p]]
  /\ job_runs' = job_runs + 1
  /\ UNCHANGED <<users, users_file, conferences, user_data, conv_state, bot_version,
               probe_vars, scrape_vars, io_vars, conc_vars>>

\* /myfilters: an unknown user gets the default record, which is saved
myfilters_command(user_id) ==
  /\ bot_version = "part_000"
  /\ reply' = <<user_id, "myfilters">>
  /\ IF user_id \notin DOMAIN users
     THEN users' = WithDefault(user_id) /\ save_json(users')
     ELSE UNCHANGED <<users, users_file>>
  /\ UNCHANGED <<conferences, user_data, conv_state, sent, failed, job_runs,
               bot_version, faults, probe_vars, scrape_vars,
               conc_vars>>

\* the reply of /list: the matcher runs over the store, and an exception of
\* the matcher ends the handler without a reply
list_reply(user_filters_) ==
  LET outcomes == {matches_filters(conferences[c], user_filters_) : c \in DOMAIN conferences}
  IN  IF outcomes \ {"True", "False"} # {} THEN "none"
      ELSE IF "True" \in outcomes THEN "list"
      ELSE "no_conferences"

\* /list, and /search, which calls it: an unknown user gets the default record
\* in self.users, which is not saved
list_command(user_id) ==
  /\ bot_version = "part_000"
  /\ users' = WithDefault(user_id)
  /\ reply' = <<user_id, list_reply(users'[user_id].filters)>>
  /\ UNCHANGED <<users_file, conferences, user_data, conv_state, sent, failed, job_runs,
               bot_version, faults, probe_vars, scrape_vars,
               conc_vars>>

\* conference_bot.py, /subscribe: load_users, set the flag (or write the record
\* of a new user), save_users, reply; a write that fails raises before the reply
subscribe(user_id) ==
  /\ bot_version = "conference_bot"
  /\ \E written \in WriteOutcomes :
       IF written
       THEN /\ users_file' = IF user_id \notin DOMAIN users_file
                             THEN (user_id :> V1NewUser) @@ users_file
                             ELSE [users_file EXCEPT ![user_id].subscribed = TRUE]
            /\ reply' = <<user_id, "subscribed">>
       ELSE /\ UNCHANGED users_file
            /\ reply' = <<user_id, "none">>
  /\ UNCHANGED <<users, conferences, user_data, conv_state, sent, failed, job_runs,
               bot_version, faults, probe_vars, scrape_vars,
               conc_vars>>

\* conference_bot.py, /unsubscribe: load_users, clear the flag of a known user,
\* save_users and reply; an unknown user only gets a reply; a write that fails
\* raises before the reply
unsubscribe(user_id) ==
  /\ bot_version = "conference_bot"
  /\ IF user_id \in DOMAIN users_file
     THEN \E written \in WriteOutcomes :
            IF written
            THEN /\ users_file' = [users_file EXCEPT ![user_id].subscribed = FALSE]
                 /\ reply' = <<user_id, "unsubscribed">>
            ELSE /\ UNCHANGED users_file
                 /\ reply' = <<user_id, "none">>
     ELSE /\ UNCHANGED users_file
          /\ reply' = <<user_id, "not_subscribed">>
  /\ UNCHANGED <<users, conferences, user_data, conv_state, sent, failed, job_runs,
               bot_version, faults, probe_vars, scrape_vars,
               conc_vars>>

\* conference_bot.py, check_new_conferences_job: load_users and list the
\* subscribed users; nothing is sent and nothing is written
check_new_conferences_job_v1 ==
  /\ bot_version = "conference_bot"
  /\ job_runs < MaxCycles
  /\ LET subscribed_users == {u \in DOMAIN users_file : users_file[u].subscribed}
     IN  subscribed_users \subseteq DOMAIN users_file
  /\ job_runs' = job_runs + 1
  /\ UNCHANGED <<users, users_file, conferences, user_data, conv_state, sent, failed,
               bot_version, probe_vars, scrape_vars, io_vars, conc_vars>>

Init ==
  /\ BotInit
  /\ faults = FALSE
  /\ conference = EmptyDict
  /\ user_filters = EmptyDict
  /\ country_axis = "none"
  /\ direction_axis = "none"
  /\ result = "none"
  /\ prev_result = "none"
  /\ stage = "idle"
  /\ change = "none"
  /\ ScrapeIdle
  /\ ConcIdle

Next ==
  \/ \E u \in UserIds : start_command(u)
  \/ \E u \in UserIds : subscribe_command(u)
  \/ \E u \in UserIds : unsubscribe_command(u)
  \/ \E u \in ConversationUsers : filters_command(PrivateChat, u)
  \/ \E u \in ConversationUsers, data \in CountryButtons : select_country(PrivateChat, u, data)
  \/ \E u \in ConversationUsers, data \in DirectionButtons : select_direction(PrivateChat, u, data)
  \/ \E u \in ConversationUsers : cancel_command(PrivateChat, u)
  \/ check_new_conferences_job
  \/ \E u \in UserIds : subscribe(u)
  \/ \E u \in UserIds : unsubscribe(u)
  \/ check_new_conferences_job_v1

Spec == Init /\ [][Next]_vars

(***************************************************************************)
(* SpecStore: all commands of both bots that touch the users, over a disk  *)
(* whose writes may or may not be able to fail.                            *)
(***************************************************************************)
InitStore ==
  /\ BotInit
  /\ faults \in BOOLEAN
  /\ conference = EmptyDict
  /\ user_filters = EmptyDict
  /\ country_axis = "none"
  /\ direction_axis = "none"
  /\ result = "none"
  /\ prev_result = "none"
  /\ stage = "idle"
  /\ change = "none"
  /\ ScrapeIdle
  /\ ConcIdle

\* the buttons pressed under SpecStore: Done on the country step, and Cloud
\* and Done on the direction step
StoreCountryButtons == {S_country_ \o S_done}
StoreDirectionButtons == {S_direction_ \o CloudOption, S_direction_ \o S_done}

NextStore ==
  \/ \E u \in UserIds : start_command(u)
  \/ \E u \in UserIds : list_command(u)
  \/ \E u \in UserIds : myfilters_command(u)
  \/ \E u \in UserIds : subscribe_command(u)
  \/ \E u \in UserIds : unsubscribe_command(u)
  \/ \E u \in ConversationUsers : filters_command(PrivateChat, u)
  \/ \E u \in ConversationUsers, data \in StoreCountryButtons : select_country(PrivateChat, u, data)
  \/ \E u \in ConversationUsers, data \in StoreDirectionButtons : select_direction(PrivateChat, u, data)
  \/ \E u \in ConversationUsers : cancel_command(PrivateChat, u)
  \/ \E u \in UserIds : subscribe(u)
  \/ \E u \in UserIds : unsubscribe(u)

SpecStore == InitStore /\ [][NextStore]_vars

(***************************************************************************)
(* Properties of the periodic job, checked under Spec.                     *)
(***************************************************************************)
\* the conference matches the user's stored filter
MatchesUser(u, c) == matches_filters(conferences[c], users[u].filters) = "True"

\* C9: every run of the periodic job sends each subscribed user one
\* notification for each conference of the store that matches the user's filter
\* and has not been notified to that user before.
C9_CycleNotifiesNewMatches ==
  [][ job_runs' = job_runs + 1 =>
        \A u \in DOMAIN users, c \in DOMAIN conferences :
          (users[u].subscribed /\ MatchesUser(u, c) /\ sent[<<u, c>>] = 0)
            => sent'[<<u, c>>] = 1 ]_vars

JobStep == job_runs' = job_runs + 1

\* the deliveries owed when a run starts: a subscribed user, a conference of
\* the store matching the user's filter, no message about it delivered yet
Owed ==
  {p \in DOMAIN sent : /\ p[1] \in DOMAIN users
                       /\ p[2] \in DOMAIN conferences
                       /\ users[p[1]].subscribed
                       /\ MatchesUser(p[1], p[2])
                       /\ sent[p] = 0}

\* C11: a delivery that fails in a cycle is not recorded as notified and is
\* attempted again in the next cycle (at-least-once delivery): every run
\* attempts each owed delivery, a failed attempt leaves the conference
\* unrecorded for that user, and a failure for one user does not keep the run
\* from attempting the deliveries owed to the other users.
C11_FailedDeliveryRetried ==
  [][ JobStep =>
        \A p \in Owed :
          /\ sent'[p] + failed'[p] = sent[p] + failed[p] + 1
          /\ failed'[p] > failed[p] => sent'[p] = sent[p] ]_vars

\* the users the job of the running bot finds subscribed
SubscribedUsers ==
  IF bot_version = "part_000"
  THEN {u \in DOMAIN users : users[u].subscribed}
  ELSE {u \in DOMAIN users_file : users_file[u].subscribed}

\* C12: a run of the periodic job with an empty conference store, or with no
\* subscribed user, is a no-op: it completes, sends no notification and leaves
\* the users and the conferences, in memory and on disk, as they were.
C12_EmptyRunIsNoOp ==
  [][ (JobStep /\ (conferences = EmptyDict \/ SubscribedUsers = {})) =>
        /\ sent' = sent
        /\ failed' = failed
        /\ users' = users
        /\ users_file' = users_file
        /\ conferences' = conferences ]_vars

\* the job has run on an empty store while a user was known to the bot
C12_Witness ==
  /\ job_runs >= 1
  /\ conferences = EmptyDict
  /\ users_file # EmptyDict

(***************************************************************************)
(* Frame of the subscription commands and of the filter update, checked    *)
(* under Spec.                                                             *)
(***************************************************************************)
\* between the users before and the users after a command of user u, the
\* records of the other users are the same, no record appears or disappears
\* but u's, and a record u already had differs at most in its flag, now flag
FlagOnly(before, after, u, flag) ==
  /\ DOMAIN before \subseteq DOMAIN after
  /\ DOMAIN after \subseteq DOMAIN before \cup {u}
  /\ \A v \in DOMAIN before \ {u} : after[v] = before[v]
  /\ u \in DOMAIN before => after[u] = [before[u] EXCEPT !.subscribed = flag]

\* C13: subscribe and unsubscribe change only the calling user's subscribed
\* flag, in memory and on disk: the stored filter of an existing user and the
\* records of all other users stay as they were, unsubscribe keeps the record
\* with subscribed = false, and subscribe sets subscribed = true on the record
\* with the filters it had.
C13_SubscriptionFrame ==
  [][ \A u \in UserIds :
        /\ subscribe_command(u) =>
              /\ FlagOnly(users, users', u, TRUE)
              /\ FlagOnly(users_file, users_file', u, TRUE)
              /\ users'[u].subscribed /\ users_file'[u].subscribed
        /\ unsubscribe_command(u) =>
              /\ FlagOnly(users, users', u, FALSE)
              /\ FlagOnly(users_file, users_file', u, FALSE)
              /\ DOMAIN users' = DOMAIN users
        /\ subscribe(u) =>
              /\ FlagOnly(users_file, users_file', u, TRUE)
              /\ users_file'[u].subscribed
        /\ unsubscribe(u) =>
              /\ FlagOnly(users_file, users_file', u, FALSE)
              /\ DOMAIN users_file' = DOMAIN users_file ]_vars

\* a user whose record was written by the earlier bot has unsubscribed: the
\* record is still there, in memory and on disk, with the filters it had,
\* while another user is subscribed
C13_Witness ==
  /\ bot_version = "part_000"
  /\ "1001" \in DOMAIN users
  /\ users["1001"] = [V1NewUser EXCEPT !.subscribed = FALSE]
  /\ users_file = users
  /\ "1002" \in DOMAIN users
  /\ users["1002"].subscribed

MaxPayload == 2

european_countries ==
  << <<"G","e","r","m","a","n","y">>,
     <<"F","r","a","n","c","e">>,
     <<"U","K">>,
     <<"U","n","i","t","e","d"," ","K","i","n","g","d","o","m">>,
     <<"S","p","a","i","n">>,
     <<"I","t","a","l","y">>,
     <<"N","e","t","h","e","r","l","a","n","d","s">>,
     <<"B","e","l","g","i","u","m">>,
     <<"P","o","l","a","n","d">>,
     <<"S","w","e","d","e","n">>,
     <<"N","o","r","w","a","y">>,
     <<"D","e","n","m","a","r","k">>,
     <<"F","i","n","l","a","n","d">>,
     <<"A","u","s","t","r","i","a">>,
     <<"S","w","i","t","z","e","r","l","a","n","d">>,
     <<"P","o","r","t","u","g","a","l">>,
     <<"C","z","e","c","h"," ","R","e","p","u","b","l","i","c">>,
     <<"G","r","e","e","c","e">>,
     <<"I","r","e","l","a","n","d">>,
     <<"R","o","m","a","n","i","a">>,
     <<"H","u","n","g","a","r","y">>,
     <<"C","r","o","a","t","i","a">>,
     <<"S","l","o","v","e","n","i","a">> >>

relevant_topics ==
  << <<"t","e","s","t","i","n","g">>,
     <<"q","a">>,
     <<"q","u","a","l","i","t","y">>,
     <<"s","o","f","t","w","a","r","e">>,
     <<"d","e","v">>,
     <<"t","e","c","h">>,
     <<"a","g","i","l","e">>,
     <<"j","a","v","a","s","c","r","i","p","t">>,
     <<"p","y","t","h","o","n">>,
     <<"j","a","v","a">>,
     <<"d","e","v","o","p","s">>,
     <<"c","l","o","u","d">>,
     <<"s","e","c","u","r","i","t","y">>,
     <<"m","o","b","i","l","e">>,
     <<"w","e","b">>,
     <<"d","a","t","a">> >>

\* JSON null, read by Python as None, and a JSON array where a string is
\* expected: neither is a string
None == <<"None">>
ListValue == <<"[list]">>

RECURSIVE join(_)
\* ' '.join(l)
join(l) ==
  IF l = <<>> THEN <<>>
  ELSE IF Len(l) = 1 THEN l[1]
  ELSE l[1] \o <<" ">> \o join(Tail(l))

is_relevant_conference_topics_only(conf) ==
  LET country == get(conf, "country", <<>>)
  IN  IF country = None THEN "AttributeError"
      ELSE IF ~\E i \in 1..Len(european_countries) :
                 IsSubstr(lower(european_countries[i]), lower(country))
      THEN "False"
      ELSE LET topics == get(conf, "topics", <<>>)
               name == get(conf, "name", <<>>)
           IN  IF name = None THEN "AttributeError"
               ELSE IF topics # <<>> /\ \E i \in 1..Len(relevant_topics) :
                                          IsSubstr(relevant_topics[i], lower(join(topics)))
               THEN "True"
               ELSE "False"

\* _is_relevant_conference(conf): "True", "False", or the AttributeError of
\* .lower() on None
is_relevant_conference(conf) ==
  LET country == get(conf, "country", <<>>)
  IN  IF country = None THEN "AttributeError"
      ELSE IF ~\E i \in 1..Len(european_countries) :
                 IsSubstr(lower(european_countries[i]), lower(country))
      THEN "False"
      ELSE LET topics == get(conf, "topics", <<>>)
               name == get(conf, "name", <<>>)
           IN  IF name = None THEN "AttributeError"
               ELSE IF topics # <<>> /\ \E i \in 1..Len(relevant_topics) :
                                          IsSubstr(relevant_topics[i], lower(join(topics)))
               THEN "True"
               ELSE IF \E i \in 1..Len(relevant_topics) :
                         IsSubstr(relevant_topics[i], lower(name))
               THEN "True"
               ELSE "False"

S_confs_tech == <<"c","o","n","f","s",".","t","e","c","h">>

\* the dict scrape_confs_tech appends for a relevant conf
scraped_record(conf) ==
  ("name" :> get(conf, "name", <<>>)) @@
  ("url" :> get(conf, "url", <<>>)) @@
  ("start_date" :> get(conf, "startDate", <<>>)) @@
  ("end_date" :> get(conf, "endDate", <<>>)) @@
  ("city" :> get(conf, "city", <<>>)) @@
  ("country" :> get(conf, "country", <<>>)) @@
  ("topics" :> get(conf, "topics", <<>>)) @@
  ("source" :> S_confs_tech)

RECURSIVE scrape_loop(_, _)
\* the loop of scrape_confs_tech over the rest of data, collected being the
\* list of conferences so far: the list at the end of the loop, or at the
\* record whose processing raised
scrape_loop(data, collected) ==
  IF data = <<>> THEN [conferences |-> collected, error |-> "none"]
  ELSE LET relevant == is_relevant_conference(Head(data))
       IN  IF relevant = "AttributeError"
           THEN [conferences |-> collected, error |-> relevant]
           ELSE scrape_loop(Tail(data),
                            IF relevant = "True"
                            THEN Append(collected, scraped_record(Head(data)))
                            ELSE collected)

\* what requests.get and response.json() can do
Responses == {"200", "404", "ConnectionError", "Timeout", "JSONDecodeError"}

\* the body of scrape_confs_tech: the list it returns and the exception its
\* except clause caught
scrape_confs_tech_body(resp, data) ==
  IF resp = "200" THEN scrape_loop(data, <<>>)
  ELSE IF resp = "404" THEN [conferences |-> <<>>, error |-> "none"]
  ELSE [conferences |-> <<>>, error |-> resp]

S_error_scraping == "Error scraping confs.tech"
S_scraping == "Scraping confs.tech..."

\* the lines scrape_confs_tech prints
scrape_prints(error) == IF error = "none" THEN <<>> ELSE <<S_error_scraping>>

\* check_early_bird_status: True or False on a 200 page, None on any other
\* status and on an exception
ProbeOutcomes == {"True", "False", "None"}

with_early_bird_always(conf, early_bird) ==
  ("early_bird_available" :> early_bird) @@ conf

\* the conf after the probe: the key is set when the probe determined a value
with_early_bird(conf, early_bird) ==
  IF early_bird # "None"
  THEN ("early_bird_available" :> early_bird) @@ conf
  ELSE conf

\* the urls discover_new_conferences can hand to check_early_bird_status
ProbedUrls(all_conferences) ==
  {all_conferences[i]["url"] : i \in 1..Len(all_conferences)} \ {<<>>, ListValue}

RECURSIVE dedup_loop(_, _, _, _)
\* the deduplication loop of discover_new_conferences over the rest of
\* all_conferences; a url that is a list cannot be looked up in the set
dedup_loop(all_conferences, seen_urls, unique, early_bird) ==
  IF all_conferences = <<>> THEN [unique |-> unique, error |-> "none"]
  ELSE LET conf == Head(all_conferences)
           url == get(conf, "url", <<>>)
       IN  IF url = ListValue THEN [unique |-> unique, error |-> "TypeError"]
           ELSE IF url # <<>> /\ url \notin seen_urls
           THEN dedup_loop(Tail(all_conferences), seen_urls \cup {url},
                           Append(unique, with_early_bird(conf, early_bird[url])),
                           early_bird)
           ELSE dedup_loop(Tail(all_conferences), seen_urls, unique, early_bird)

(***************************************************************************)
(* SpecScrape: one call of scrape_confs_tech or of                         *)
(* discover_new_conferences on a payload of confs.tech.                    *)
(***************************************************************************)
S_url == <<"h","t","t","p","s",":","/","/","c","o","n","f",".","i","o">>
S_url_slash == <<"h","t","t","p","s",":","/","/","c","o","n","f",".","i","o","/">>
S_url_host_case == <<"h","t","t","p","s",":","/","/","C","o","n","f",".","i","o">>
S_url_other == <<"h","t","t","p","s",":","/","/","d","e","v",".","p","l">>
S_date == <<"2","0","2","6","-","0","3","-","0","1">>
S_date_other == <<"2","0","2","6","-","0","5","-","1","0">>
S_QA_Day == <<"Q","A"," ","D","a","y">>
S_Python_Meetup == <<"P","y","t","h","o","n"," ","M","e","e","t","u","p">>
S_Painting == <<"P","a","i","n","t","i","n","g">>
S_Dev_Summit == <<"D","e","v"," ","S","u","m","m","i","t">>
S_art == <<"a","r","t">>
S_germany == <<"g","e","r","m","a","n","y">>
S_GERMANY == <<"G","E","R","M","A","N","Y">>
S_West_Germany == <<"W","e","s","t"," ","G","e","r","m","a","n","y">>

\* the records of the payloads
PayloadRecords ==
  { \* relevant by country and topic
    ("name" :> S_QA_Day) @@ ("url" :> S_url) @@ ("startDate" :> S_date) @@
      ("country" :> S_Germany) @@ ("topics" :> <<S_testing>>),
    \* the same conference listed again with one more topic
    ("name" :> S_QA_Day) @@ ("url" :> S_url) @@ ("startDate" :> S_date) @@
      ("country" :> S_Germany) @@ ("topics" :> <<S_testing, S_cloud>>),
    \* the same conference under a url with a trailing slash
    ("name" :> S_QA_Day) @@ ("url" :> S_url_slash) @@ ("startDate" :> S_date) @@
      ("country" :> S_West_Germany) @@ ("topics" :> <<S_QA>>),
    \* the same conference under a url with an upper-case host
    ("name" :> S_QA_Day) @@ ("url" :> S_url_host_case) @@ ("startDate" :> S_date) @@
      ("country" :> S_Germany) @@ ("topics" :> <<S_testing>>),
    \* another conference, relevant by its name, without topics
    ("name" :> S_Dev_Summit) @@ ("url" :> S_url_other) @@ ("startDate" :> S_date_other) @@
      ("country" :> S_Poland),
    \* relevant by its name, with an empty url
    ("name" :> S_Python_Meetup) @@ ("url" :> <<>>) @@ ("startDate" :> S_date) @@
      ("country" :> S_germany) @@ ("topics" :> <<>>),
    \* relevant, with neither url nor name nor date
    ("country" :> S_GERMANY) @@ ("topics" :> <<S_art, S_Cloud>>),
    \* outside the listed countries
    ("name" :> S_QA_Day) @@ ("url" :> S_url_other) @@ ("startDate" :> S_date) @@
      ("country" :> S_USA) @@ ("topics" :> <<S_testing>>),
    \* no country, and an empty country
    ("name" :> S_QA_Day) @@ ("url" :> S_url_other) @@ ("topics" :> <<S_qa>>),
    ("name" :> S_QA_Day) @@ ("url" :> S_url_other) @@ ("country" :> <<>>) @@
      ("topics" :> <<S_qa>>),
    \* a listed country, no word of the vocabulary
    ("name" :> S_Painting) @@ ("url" :> S_url_other) @@ ("country" :> S_Germany) @@
      ("topics" :> <<S_art>>),
    \* "name": null
    ("name" :> None) @@ ("url" :> S_url_other) @@ ("country" :> S_Germany) @@
      ("topics" :> <<S_testing>>),
    \* "url": [...]
    ("name" :> S_QA_Day) @@ ("url" :> ListValue) @@ ("country" :> S_Germany) @@
      ("topics" :> <<S_testing>>) }

\* the lists response.json() can return
Payloads ==
  UNION { [1..n -> PayloadRecords] : n \in 0..MaxPayload }

\* self.conferences of a bot started without conferences.json
ManualEntries == [id \in Range(SampleIds) |-> get_sample_conferences[id]]

InitScrape ==
  /\ payload \in Payloads
  /\ response = "none"
  /\ probes = EmptyDict
  /\ confs_tech_conferences = <<>>
  /\ unique_conferences = <<>>
  /\ escaped = "none"
  /\ printed = <<>>
  /\ scrape_stage = "input"
  /\ now = "none"
  /\ upcoming = <<>>
  /\ users = EmptyDict
  /\ users_file = EmptyDict
  /\ conferences = ManualEntries
  /\ user_data = [u \in UserIds |-> EmptyDict]
  /\ conv_state = [k \in ChatIds \X UserIds |-> "END"]
  /\ sent = [p \in UserIds \X Range(SampleIds) |-> 0]
  /\ failed = [p \in UserIds \X Range(SampleIds) |-> 0]
  /\ job_runs = 0
  /\ bot_version = "part_000"
  /\ reply = <<"none", "none">>
  /\ faults = FALSE
  /\ conference = EmptyDict
  /\ user_filters = EmptyDict
  /\ country_axis = "none"
  /\ direction_axis = "none"
  /\ result = "none"
  /\ prev_result = "none"
  /\ stage = "idle"
  /\ change = "none"
  /\ ConcIdle

\* scrape_confs_tech()
scrape_confs_tech ==
  /\ scrape_stage = "input"
  /\ \E resp \in Responses :
       LET body == scrape_confs_tech_body(resp, payload)
       IN  /\ response' = resp
           /\ confs_tech_conferences' = body.conferences
           /\ printed' = scrape_prints(body.error)
  /\ escaped' = "none"
  /\ scrape_stage' = "scraped"
  /\ UNCHANGED <<payload, probes, unique_conferences, now, upcoming, probe_vars, bot_vars,
                 io_vars, conc_vars>>

\* discover_new_conferences(): the scrape, then the deduplication with one
\* early-bird probe for each url kept
discover_new_conferences ==
  /\ scrape_stage = "input"
  /\ \E resp \in Responses :
       LET body == scrape_confs_tech_body(resp, payload)
       IN  \E early_bird \in [ProbedUrls(body.conferences) -> ProbeOutcomes] :
             LET dedup == dedup_loop(body.conferences, {}, <<>>, early_bird)
             IN  /\ response' = resp
                 /\ probes' = early_bird
                 /\ confs_tech_conferences' = body.conferences
                 /\ printed' = <<S_scraping>> \o scrape_prints(body.error)
                 /\ escaped' = dedup.error
                 /\ unique_conferences' = IF dedup.error = "none" THEN dedup.unique ELSE <<>>
  /\ scrape_stage' = "discovered"
  /\ UNCHANGED <<payload, now, upcoming, probe_vars, bot_vars, io_vars, conc_vars>>

NextScrape ==
  \/ scrape_confs_tech
  \/ discover_new_conferences

SpecScrape == InitScrape /\ [][NextScrape]_vars

(***************************************************************************)
(* Properties of the scraper, checked under SpecScrape.                    *)
(***************************************************************************)
\* discover_new_conferences has returned a list
Discovered == scrape_stage = "discovered" /\ escaped = "none"

\* the position of the first "/" of s at or after position i, Len(s) + 1 if none
RECURSIVE FirstSlash(_, _)
FirstSlash(s, i) ==
  IF i > Len(s) THEN Len(s) + 1
  ELSE IF s[i] = "/" THEN i
  ELSE FirstSlash(s, i + 1)

\* the position where the host of url starts: after "://", or 1 without a scheme
HostStart(url) ==
  IF \E k \in 1..(Len(url) - 2) : SubSeq(url, k, k + 2) = <<":", "/", "/">>
  THEN 3 + CHOOSE k \in 1..(Len(url) - 2) :
             /\ SubSeq(url, k, k + 2) = <<":", "/", "/">>
             /\ \A j \in 1..(k - 1) : SubSeq(url, j, j + 2) # <<":", "/", "/">>
  ELSE 1

\* the normalized url: scheme + host + path, the trailing slash stripped and
\* the host case-folded
NormalizeUrl(url) ==
  LET stripped == IF url # <<>> /\ url[Len(url)] = "/"
                  THEN SubSeq(url, 1, Len(url) - 1) ELSE url
      host_end == FirstSlash(stripped, HostStart(stripped)) - 1
  IN  lower(SubSeq(stripped, 1, host_end)) \o SubSeq(stripped, host_end + 1, Len(stripped))

\* C15: the list discover_new_conferences returns never holds two records with
\* the same identity, the identity of a record being its normalized url.
C15_OneRecordPerIdentity ==
  Discovered =>
    \A i, j \in 1..Len(unique_conferences) :
      i # j => NormalizeUrl(unique_conferences[i]["url"]) #
               NormalizeUrl(unique_conferences[j]["url"])

\* C16: the record kept for an identity carries the union of the topics of all
\* scraped records of that identity.
C16_TopicsUnion ==
  Discovered =>
    \A k \in 1..Len(unique_conferences), r \in 1..Len(confs_tech_conferences) :
      NormalizeUrl(confs_tech_conferences[r]["url"]) =
        NormalizeUrl(unique_conferences[k]["url"])
      => Range(confs_tech_conferences[r]["topics"]) \subseteq
           Range(unique_conferences[k]["topics"])

\* the lines the scraper prints that do not concern a dropped record
OtherLines == {S_scraping, S_error_scraping}

\* C17: a scraped record with an empty url but a name and a start date is kept
\* under its name and date, and a record dropped for want of an identity is
\* reported by a printed line.
C17_DroppedOnlyWithoutIdentity ==
  Discovered =>
    \A r \in 1..Len(confs_tech_conferences) :
      LET conf == confs_tech_conferences[r]
      IN  conf["url"] = <<>> =>
            IF conf["name"] # <<>> /\ conf["start_date"] # <<>>
            THEN \E k \in 1..Len(unique_conferences) :
                   /\ unique_conferences[k]["name"] = conf["name"]
                   /\ unique_conferences[k]["start_date"] = conf["start_date"]
            ELSE \E i \in 1..Len(printed) : printed[i] \notin OtherLines

\* C18: a probe without a determination leaves the record as the scrape built
\* it (early_bird_available is neither set nor changed) and keeps it in the
\* result; a determined value is stored as determined, never as unknown.
C18_ProbeFailureKeepsRecord ==
  Discovered =>
    /\ \A url \in DOMAIN probes :
         \E k \in 1..Len(unique_conferences) : unique_conferences[k]["url"] = url
    /\ \A k \in 1..Len(unique_conferences) :
         LET conf == unique_conferences[k]
         IN  IF probes[conf["url"]] = "None"
             THEN \E r \in 1..Len(confs_tech_conferences) :
                    conf = confs_tech_conferences[r]
             ELSE /\ conf["early_bird_available"] = probes[conf["url"]]
                  /\ \E r \in 1..Len(confs_tech_conferences) :
                       conf = ("early_bird_available" :> probes[conf["url"]]) @@
                              confs_tech_conferences[r]

\* discovery has kept two records, the probe of one without a determination,
\* the probe of the other determined
C18_Witness ==
  /\ Discovered
  /\ Len(unique_conferences) = 2
  /\ probes[unique_conferences[1]["url"]] = "None"
  /\ probes[unique_conferences[2]["url"]] = "True"

\* the fields of conf the filter reads are strings where present
WellFormed(conf) ==
  get(conf, "country", <<>>) # None /\ get(conf, "name", <<>>) # None

\* (a) the country contains an entry of the allow-list and (b) a word of the
\* vocabulary occurs in a topic tag or in the name, all without regard to case
Accepted(conf) ==
  LET country == lower(get(conf, "country", <<>>))
      name == lower(get(conf, "name", <<>>))
      tags == {lower(tag) : tag \in Range(get(conf, "topics", <<>>))}
  IN  /\ \E e \in Range(european_countries) : IsSubstr(lower(e), country)
      /\ \E w \in Range(relevant_topics) :
           \/ \E tag \in tags : IsSubstr(lower(w), tag)
           \/ IsSubstr(lower(w), name)

\* the records of data that are Accepted, as scrape_confs_tech stores them
RECURSIVE AcceptedOf(_)
AcceptedOf(data) ==
  IF data = <<>> THEN <<>>
  ELSE (IF Accepted(Head(data)) THEN <<scraped_record(Head(data))>> ELSE <<>>)
       \o AcceptedOf(Tail(data))

\* C19: a scraped record passes the relevance filter iff its country contains
\* an entry of the allow-list and a word of the vocabulary occurs in its topic
\* tags or in its name, case-insensitively; a record without a country or with
\* an empty one is rejected; the manual entries of the bot's store are not
\* filtered.
C19_RelevanceFilter ==
  /\ \A i \in 1..Len(payload) :
       LET conf == payload[i]
       IN  /\ WellFormed(conf) => (is_relevant_conference(conf) = "True" <=> Accepted(conf))
           /\ get(conf, "country", <<>>) = <<>> => is_relevant_conference(conf) = "False"
  /\ (/\ scrape_stage # "input"
      /\ response = "200"
      /\ \A i \in 1..Len(payload) : WellFormed(payload[i]))
     => confs_tech_conferences = AcceptedOf(payload)
  /\ conferences = ManualEntries

\* a scrape has kept a record that is relevant by its name alone, with the
\* country in lower case, and rejected a record without a country, while the
\* store holds a manual entry the filter would reject
C19_Witness ==
  /\ scrape_stage = "scraped"
  /\ response = "200"
  /\ Len(payload) = 2
  /\ "country" \notin DOMAIN payload[1]
  /\ Len(confs_tech_conferences) = 1
  /\ confs_tech_conferences[1]["name"] = S_Python_Meetup
  /\ confs_tech_conferences[1]["topics"] = <<>>
  /\ is_relevant_conference(conferences["2"]) = "False"

\* the fetch of confs.tech failed: a request error, a timeout, a status other
\* than 200, or an error while the payload was processed
FetchFailed ==
  /\ scrape_stage # "input"
  /\ response # "200" \/ \E i \in 1..Len(printed) : printed[i] = S_error_scraping

\* C20: when the fetch of a source fails, the source contributes no record to
\* the run, and no exception leaves scrape_confs_tech or
\* discover_new_conferences.
C20_FailedSourceContributesNothing ==
  /\ escaped = "none"
  /\ FetchFailed => confs_tech_conferences = <<>> /\ unique_conferences = <<>>

(***************************************************************************)
(* Durability of the users, checked under SpecStore.                       *)
(***************************************************************************)
\* the replies that tell a user a subscription or filter change was made
SuccessReplies == {"subscribed", "unsubscribed", "filters_saved"}

\* the record of u on disk is the record of u in memory
Durable(u) ==
  /\ u \in DOMAIN users <=> u \in DOMAIN users_file
  /\ u \in DOMAIN users => users[u] = users_file[u]

\* C21: a handler whose write of the users document failed tells the user so:
\* every handler ends with a reply, and no success message of subscribe,
\* unsubscribe or a filter update is sent while the user's record in memory
\* differs from the stored one.
C21_WriteFailureReported ==
  /\ reply[1] # "none" => reply[2] # "none"
  /\ (bot_version = "part_000" /\ reply[2] \in SuccessReplies) => Durable(reply[1])

\* C22: while writes succeed, after any sequence of commands the stored users
\* document equals the users in memory.
C22_FlushedAfterMutation ==
  (bot_version = "part_000" /\ ~faults) => users_file = users

(***************************************************************************)
(* SpecConc: the handlers as coroutines on one event loop.  A handler runs *)
(* statement by statement; the loop passes to another coroutine or to the  *)
(* periodic job only where the running handler awaits.                     *)
(***************************************************************************)
\* handler invocations in flight at a time
MaxTasks == 2

TaskIds == 1..MaxTasks

\* a free slot; local is the handler's local variable users (conference_bot.py)
IdleTask == [op |-> "idle", user |-> "none", pc |-> "done", local |-> EmptyDict]

\* the handlers of each bot that write the users
HandlersOf(version) ==
  IF version = "part_000"
  THEN {"subscribe_command", "unsubscribe_command", "select_direction"}
  ELSE {"subscribe", "unsubscribe"}

\* the first statement of a handler
FirstPc(op) ==
  IF op \in {"subscribe", "unsubscribe"} THEN "load"
  ELSE IF op = "select_direction" THEN "answer"
  ELSE "modify"

Yields_everywhere(op, pc) == TRUE

\* the statements that await: query.answer() at the top of select_direction
\* and the reply at the end of every handler
Yields(op, pc) == pc \in {"answer", "reply"}

\* the application calls the handler of an update; the invocation takes the
\* first free slot
dispatch(t, op, user_id) ==
  /\ running = 0
  /\ tasks[t].op = "idle"
  /\ \A earlier \in 1..(t - 1) : tasks[earlier].op # "idle"
  /\ op \in HandlersOf(bot_version)
  /\ op = "select_direction" =>
       user_id \in ConversationUsers /\ conv_state[<<PrivateChat, user_id>>] = "SELECTING_DIRECTION"
  /\ tasks' = [tasks EXCEPT ![t] = [op |-> op, user |-> user_id, pc |-> FirstPc(op),
                                    local |-> EmptyDict]]
  /\ running' = IF Yields(op, FirstPc(op)) THEN 0 ELSE t
  /\ UNCHANGED <<bot_vars, reply, faults, serial, probe_vars, scrape_vars>>

\* task t of handler op may execute its next statement
CanStep(t, op) ==
  /\ tasks[t].op = op
  /\ running = t \/ (running = 0 /\ Yields(op, tasks[t].pc))

\* task t goes on to statement next_pc with its local variable now local
Advance(t, next_pc, local) ==
  /\ tasks' = [tasks EXCEPT ![t] = IF next_pc = "done" THEN IdleTask
                                   ELSE [@ EXCEPT !.pc = next_pc, !.local = local]]
  /\ running' = IF next_pc = "done" \/ Yields(tasks[t].op, next_pc) THEN 0 ELSE t

\* conference_bot.py subscribe, statement by statement
subscribe_task(t) ==
  LET user_id == tasks[t].user
      pc == tasks[t].pc
      local == tasks[t].local
  IN  /\ CanStep(t, "subscribe")
      /\ IF pc = "load"
         THEN /\ Advance(t, "modify", users_file)
              /\ UNCHANGED <<users_file, serial, reply>>
         ELSE IF pc = "modify"
         THEN /\ Advance(t, "save",
                         IF user_id \notin DOMAIN local
                         THEN (user_id :> V1NewUser) @@ local
                         ELSE [local EXCEPT ![user_id].subscribed = TRUE])
              /\ UNCHANGED <<users_file, serial, reply>>
         ELSE IF pc = "save"
         THEN /\ Advance(t, "reply", local)
              /\ users_file' = local
              /\ serial' = IF user_id \notin DOMAIN serial
                           THEN (user_id :> V1NewUser) @@ serial
                           ELSE [serial EXCEPT ![user_id].subscribed = TRUE]
              /\ UNCHANGED reply
         ELSE /\ Advance(t, "done", local)
              /\ reply' = <<user_id, "subscribed">>
              /\ UNCHANGED <<users_file, serial>>
      /\ UNCHANGED <<users, conferences, user_data, conv_state, sent, failed, job_runs,
                     bot_version, faults, probe_vars, scrape_vars>>

\* conference_bot.py unsubscribe, statement by statement
unsubscribe_task(t) ==
  LET user_id == tasks[t].user
      pc == tasks[t].pc
      local == tasks[t].local
  IN  /\ CanStep(t, "unsubscribe")
      /\ IF pc = "load"
         THEN /\ Advance(t, "modify", users_file)
              /\ UNCHANGED <<users_file, serial, reply>>
         ELSE IF pc = "modify"
         THEN /\ IF user_id \in DOMAIN local
                 THEN Advance(t, "save", [local EXCEPT ![user_id].subscribed = FALSE])
                 ELSE Advance(t, "reply", local)
              /\ UNCHANGED <<users_file, serial, reply>>
         ELSE IF pc = "save"
         THEN /\ Advance(t, "reply", local)
              /\ users_file' = local
              /\ serial' = IF user_id \in DOMAIN serial
                           THEN [serial EXCEPT ![user_id].subscribed = FALSE]
                           ELSE serial
              /\ UNCHANGED reply
         ELSE /\ Advance(t, "done", local)
              /\ reply' = <<user_id, IF user_id \in DOMAIN local
                                     THEN "unsubscribed" ELSE "not_subscribed">>
              /\ UNCHANGED <<users_file, serial>>
      /\ UNCHANGED <<users, conferences, user_data, conv_state, sent, failed, job_runs,
                     bot_version, faults, probe_vars, scrape_vars>>

\* part_000 subscribe_command, statement by statement
subscribe_command_task(t) ==
  LET user_id == tasks[t].user
      pc == tasks[t].pc
  IN  /\ CanStep(t, "subscribe_command")
      /\ IF pc = "modify"
         THEN /\ Advance(t, "save", EmptyDict)
              /\ users' = [WithDefault(user_id) EXCEPT ![user_id].subscribed = TRUE]
              /\ serial' = [(IF user_id \in DOMAIN serial THEN serial
                             ELSE (user_id :> DefaultUser) @@ serial)
                            EXCEPT ![user_id].subscribed = TRUE]
              /\ UNCHANGED <<users_file, reply>>
         ELSE IF pc = "save"
         THEN /\ Advance(t, "reply", EmptyDict)
              /\ save_json(users)
              /\ UNCHANGED <<users, serial, reply>>
         ELSE /\ Advance(t, "done", EmptyDict)
              /\ reply' = <<user_id, "subscribed">>
              /\ UNCHANGED <<users, users_file, serial>>
      /\ UNCHANGED <<conferences, user_data, conv_state, sent, failed, job_runs,
                     bot_version, faults, probe_vars, scrape_vars>>

\* part_000 unsubscribe_command, statement by statement
unsubscribe_command_task(t) ==
  LET user_id == tasks[t].user
      pc == tasks[t].pc
  IN  /\ CanStep(t, "unsubscribe_command")
      /\ IF pc = "modify"
         THEN IF user_id \in DOMAIN users
              THEN /\ Advance(t, "save", EmptyDict)
                   /\ users' = [users EXCEPT ![user_id].subscribed = FALSE]
                   /\ serial' = IF user_id \in DOMAIN serial
                                THEN [serial EXCEPT ![user_id].subscribed = FALSE]
                                ELSE serial
                   /\ UNCHANGED <<users_file, reply>>
              ELSE /\ Advance(t, "reply", EmptyDict)
                   /\ UNCHANGED <<users, users_file, serial, reply>>
         ELSE IF pc = "save"
         THEN /\ Advance(t, "reply", EmptyDict)
              /\ save_json(users)
              /\ UNCHANGED <<users, serial, reply>>
         ELSE /\ Advance(t, "done", EmptyDict)
              /\ reply' = <<user_id, "unsubscribed">>
              /\ UNCHANGED <<users, users_file, serial>>
      /\ UNCHANGED <<conferences, user_data, conv_state, sent, failed, job_runs,
                     bot_version, faults, probe_vars, scrape_vars>>

\* the filter a Done on the direction step stores for the selections in data
chosen_filters(data) ==
  LET selected == get(data, "selected_directions", <<>>)
  IN  ("countries" :> get(data, "selected_countries", <<AllCountries>>)) @@
      ("directions" :> IF selected = <<>> THEN <<AllDirections>> ELSE selected)

\* part_000 select_direction on direction_done, statement by statement
select_direction_task(t) ==
  LET user_id == tasks[t].user
      pc == tasks[t].pc
  IN  /\ CanStep(t, "select_direction")
      /\ IF pc = "answer"
         THEN /\ Advance(t, "modify", EmptyDict)
              /\ UNCHANGED <<users, users_file, user_data, conv_state, serial, reply>>
         ELSE IF pc = "modify"
         THEN LET filters == chosen_filters(user_data[user_id])
                  existing == IF user_id \in DOMAIN users THEN users
                              ELSE (user_id :> [subscribed |-> FALSE, filters |-> EmptyDict])
                                   @@ users
                  applied == IF user_id \in DOMAIN serial THEN serial
                             ELSE (user_id :> [subscribed |-> FALSE, filters |-> EmptyDict])
                                  @@ serial
              IN  /\ Advance(t, "save", EmptyDict)
                  /\ user_data' = [user_data EXCEPT
                        ![user_id] = ("selected_directions" :> filters["directions"]) @@ @]
                  /\ users' = [existing EXCEPT ![user_id].filters = filters]
                  /\ serial' = [applied EXCEPT ![user_id].filters = filters]
                  /\ UNCHANGED <<users_file, conv_state, reply>>
         ELSE IF pc = "save"
         THEN /\ Advance(t, "reply", EmptyDict)
              /\ save_json(users)
              /\ UNCHANGED <<users, user_data, conv_state, serial, reply>>
         ELSE /\ Advance(t, "done", EmptyDict)
              /\ reply' = <<user_id, "filters_saved">>
              /\ conv_state' = [conv_state EXCEPT ![<<PrivateChat, user_id>>] = "END"]
              /\ UNCHANGED <<users, users_file, user_data, serial>>
      /\ UNCHANGED <<conferences, sent, failed, job_runs,
                     bot_version, faults, probe_vars, scrape_vars>>

\* the job queue runs the periodic job while no handler holds the loop
job_task ==
  /\ running = 0
  /\ check_new_conferences_job

job_task_v1 ==
  /\ running = 0
  /\ check_new_conferences_job_v1

\* the bot is up, writes succeed, and user 1001 is on the direction step of
\* the filter conversation with Germany and Cloud chosen
InitConc ==
  /\ bot_version \in BotVersions
  /\ users_file \in UsersDocuments
  /\ users = IF bot_version = "part_000" THEN users_file ELSE EmptyDict
  /\ serial = users_file
  /\ conferences = [id \in {SampleIds[i] : i \in 1..MaxConfs} |-> get_sample_conferences[id]]
  /\ user_data = [u \in UserIds |->
                    IF u \in ConversationUsers /\ bot_version = "part_000"
                    THEN ("selected_countries" :> <<GermanyOption>>) @@
                         ("selected_directions" :> <<CloudOption>>)
                    ELSE EmptyDict]
  /\ conv_state = [k \in ChatIds \X UserIds |->
                     IF k[1] = PrivateChat /\ k[2] \in ConversationUsers
                        /\ bot_version = "part_000"
                     THEN "SELECTING_DIRECTION" ELSE "END"]
  /\ sent = [p \in UserIds \X Range(SampleIds) |-> 0]
  /\ failed = [p \in UserIds \X Range(SampleIds) |-> 0]
  /\ job_runs = 0
  /\ reply = <<"none", "none">>
  /\ faults = FALSE
  /\ tasks = [t \in TaskIds |-> IdleTask]
  /\ running = 0
  /\ conference = EmptyDict
  /\ user_filters = EmptyDict
  /\ country_axis = "none"
  /\ direction_axis = "none"
  /\ result = "none"
  /\ prev_result = "none"
  /\ stage = "idle"
  /\ change = "none"
  /\ ScrapeIdle

NextConc ==
  \/ \E t \in TaskIds, u \in UserIds :
       \E op \in {"subscribe_command", "unsubscribe_command", "select_direction",
                  "subscribe", "unsubscribe"} : dispatch(t, op, u)
  \/ \E t \in TaskIds : subscribe_task(t)
  \/ \E t \in TaskIds : unsubscribe_task(t)
  \/ \E t \in TaskIds : subscribe_command_task(t)
  \/ \E t \in TaskIds : unsubscribe_command_task(t)
  \/ \E t \in TaskIds : select_direction_task(t)
  \/ job_task
  \/ job_task_v1

SpecConc == InitConc /\ [][NextConc]_vars

\* the users data of the running bot: self.users, or users.json for the bot
\* that keeps no users in memory
UsersData == IF bot_version = "part_000" THEN users ELSE users_file

\* C23: under any interleaving of the handlers of the same or of different
\* users with each other and with the periodic job, no update is lost and no
\* record is corrupted: whenever the loop is free, the users data is the
\* result of applying the committed operations one after the other, and the
\* stored document of part_000 is its users in memory.
C23_Serializable ==
  running = 0 =>
    /\ UsersData = serial
    /\ bot_version = "part_000" => users_file = users

\* two handlers of different users are in flight together, both after their
\* write, and the periodic job has run
C23_Witness ==
  /\ tasks[1].op # "idle" /\ tasks[2].op # "idle"
  /\ tasks[1].user # tasks[2].user
  /\ tasks[1].pc = "reply" /\ tasks[2].pc = "reply"
  /\ UsersData # EmptyDict
  /\ job_runs >= 1

(***************************************************************************)
(* SpecConv: the filter conversation of one user in two chats, with the    *)
(* buttons of the keyboard on screen and of an earlier keyboard.           *)
(***************************************************************************)
\* callback_data that reaches select_country: the country keyboard, and a
\* button of the direction keyboard of an earlier, cancelled conversation
ConvCountryPresses == CountryButtons \cup {S_direction_ \o CloudOption}

\* callback_data that reaches select_direction: the direction keyboard, and
\* the Done button of the country keyboard of an earlier conversation
ConvDirectionPresses == DirectionButtons \cup {S_country_ \o S_done}

InitConv ==
  /\ Init
  /\ bot_version = "part_000"
  /\ conferences = EmptyDict

NextConv ==
  \/ \E u \in ConversationUsers : start_command(u)
  \/ \E c \in ChatIds, u \in ConversationUsers : filters_command(c, u)
  \/ \E c \in ChatIds, u \in ConversationUsers, data \in ConvCountryPresses :
       select_country(c, u, data)
  \/ \E c \in ChatIds, u \in ConversationUsers, data \in ConvDirectionPresses :
       select_direction(c, u, data)
  \/ \E c \in ChatIds, u \in ConversationUsers : cancel_command(c, u)

SpecConv == InitConv /\ [][NextConv]_vars

\* the selection pending for a user on an axis
Pending(user_id, key) == get(user_data[user_id], key, <<>>)

\* a selection holds no token twice, and the sentinel only alone
WellFormedSelection(selected, sentinel) ==
  /\ \A i, j \in 1..Len(selected) : selected[i] = selected[j] => i = j
  /\ In(sentinel, selected) => selected = <<sentinel>>

\* after is before with option pressed
Pressed(before, after, option, sentinel) ==
  IF option = sentinel THEN after = <<sentinel>>
  ELSE /\ ~In(sentinel, after)
       /\ In(option, after) <=> ~In(option, before)
       /\ \A x \in (Range(before) \cup Range(after)) \ {option, sentinel} :
            In(x, after) <=> In(x, before)

\* C24: in the filter conversation every press of a country button, and
\* likewise of a direction button, leaves a pending selection that never
\* holds the "all" sentinel together with a concrete token and never holds a
\* token twice: a press of the sentinel resets the selection to the sentinel
\* alone, a press of a concrete option removes the sentinel and adds the
\* option, or removes the option when it was selected.
C24_SentinelSupersedes ==
  [][/\ \A u \in UserIds :
          /\ WellFormedSelection(Pending(u, "selected_countries"), AllCountries)'
          /\ WellFormedSelection(Pending(u, "selected_directions"), AllDirections)'
     /\ \A c \in ChatIds, u \in ConversationUsers, data \in ConvCountryPresses :
          (select_country(c, u, data) /\ data # S_country_ \o S_done) =>
            Pressed(Pending(u, "selected_countries"), Pending(u, "selected_countries")',
                    remove_all(data, S_country_), AllCountries)
     /\ \A c \in ChatIds, u \in ConversationUsers, data \in ConvDirectionPresses :
          (select_direction(c, u, data) /\ data # S_direction_ \o S_done) =>
            Pressed(Pending(u, "selected_directions"), Pending(u, "selected_directions")',
                    remove_all(data, S_direction_), AllDirections)
    ]_vars

\* the sentinel was pressed on the country step and stands alone, and a
\* concrete direction is pending from a press on the direction step of the
\* user's other chat
C24_Witness ==
  /\ reply = <<"1001", "selected">>
  /\ Pending("1001", "selected_countries") = <<AllCountries>>
  /\ Pending("1001", "selected_directions") = <<CloudOption>>
  /\ conv_state[<<"private", "1001">>] = "SELECTING_COUNTRY"
  /\ conv_state[<<"group", "1001">>] = "SELECTING_DIRECTION"

\* the filter preference the bot holds for a user, in memory and on disk
StoredFilters(user_id) ==
  <<IF user_id \in DOMAIN users THEN users[user_id].filters ELSE None,
    IF user_id \in DOMAIN users_file THEN users_file[user_id].filters ELSE None>>

\* C25: a user's stored filter preference is written only by Done on the
\* direction step of the filter conversation (a user the bot has no record of
\* is given the all/all default by the other commands); whenever Done writes
\* it, the countries list and the directions list are non-empty, and an axis
\* with nothing selected is stored as exactly the "all" sentinel; /cancel
\* leaves the stored preference unchanged.
C25_PreferenceWrittenAtDone ==
  [][\A u \in ConversationUsers :
       LET done == \E c \in ChatIds : select_direction(c, u, S_direction_ \o S_done)
       IN  /\ (StoredFilters(u)' # StoredFilters(u) /\ ~done) =>
                /\ u \notin DOMAIN users
                /\ StoredFilters(u)' = <<DefaultUser.filters, DefaultUser.filters>>
           /\ done =>
                /\ users'[u].filters["countries"] # <<>>
                /\ users'[u].filters["directions"] # <<>>
                /\ Pending(u, "selected_countries") = <<>> =>
                     users'[u].filters["countries"] = <<AllCountries>>
                /\ Pending(u, "selected_directions") = <<>> =>
                     users'[u].filters["directions"] = <<AllDirections>>
                /\ users_file'[u].filters = users'[u].filters
           /\ (\E c \in ChatIds : cancel_command(c, u)) =>
                StoredFilters(u)' = StoredFilters(u)
    ]_vars

(***************************************************************************)
(* SpecUpcoming: ConferenceScraperMixin.get_upcoming_conferences_from_     *)
(* sources called on every day of a year.                                  *)
(***************************************************************************)
\* the year of datetime.now() in the model
ThisYear == 2026

\* the default of the parameter months_ahead
months_ahead == 3

IsLeap(year) == (year % 4 = 0 /\ year % 100 # 0) \/ year % 400 = 0

\* the days of a month of the calendar datetime implements
DaysIn(year, month) ==
  IF month \in {4, 6, 9, 11} THEN 30
  ELSE IF month = 2 THEN (IF IsLeap(year) THEN 29 ELSE 28)
  ELSE 31

\* datetime.now(): a day of the year, at midnight sharp or later in the day
Nows ==
  { d \in [year : {ThisYear}, month : 1..12, day : 1..31, time : {"midnight", "later"}] :
      d.day <= DaysIn(d.year, d.month) }

\* the outcome of a call that raised ValueError
ValueError == [raised |-> "ValueError"]

Raised(outcome) == "raised" \in DOMAIN outcome

\* datetime.replace(month=month): the datetime, or the ValueError of a month
\* outside 1..12 or of a day the month does not have
replace_month(d, month) ==
  IF month \notin 1..12 THEN ValueError
  ELSE IF d.day > DaysIn(d.year, month) THEN ValueError
  ELSE [d EXCEPT !.month = month]

DigitChars == <<"0","1","2","3","4","5","6","7","8","9">>

IsDigit(c) == \E i \in 1..10 : DigitChars[i] = c

DigitValue(c) == (CHOOSE i \in 1..10 : DigitChars[i] = c) - 1

\* str.split('T')[0]: the text before the first T
split_T_first(s) ==
  IF \E i \in 1..Len(s) : s[i] = "T"
  THEN SubSeq(s, 1, (CHOOSE i \in 1..Len(s) : s[i] = "T" /\ \A j \in 1..(i - 1) : s[j] # "T") - 1)
  ELSE s

\* datetime.fromisoformat of a date string: YYYY-MM-DD of a day that exists,
\* at midnight, or ValueError
fromisoformat(s) ==
  IF /\ Len(s) = 10
     /\ s[5] = "-" /\ s[8] = "-"
     /\ \A i \in {1, 2, 3, 4, 6, 7, 9, 10} : IsDigit(s[i])
  THEN LET year == DigitValue(s[1]) * 1000 + DigitValue(s[2]) * 100
                   + DigitValue(s[3]) * 10 + DigitValue(s[4])
           month == DigitValue(s[6]) * 10 + DigitValue(s[7])
           day == DigitValue(s[9]) * 10 + DigitValue(s[10])
       IN  IF year >= 1 /\ month \in 1..12 /\ day >= 1 /\ day <= DaysIn(year, month)
           THEN [year |-> year, month |-> month, day |-> day, time |-> "midnight"]
           ELSE ValueError
  ELSE ValueError

DateOrd(d) == d.year * 10000 + d.month * 100 + d.day

\* a <= b of two datetimes
datetime_le(a, b) ==
  \/ DateOrd(a) < DateOrd(b)
  \/ DateOrd(a) = DateOrd(b) /\ (a.time = "midnight" \/ b.time = "later")

\* the characters of the date strings, in code point order
CharOrder == <<"-","0","1","2","3","4","5","6","7","8","9",":","B","D","T">>

CharOrd(c) == CHOOSE i \in 1..Len(CharOrder) : CharOrder[i] = c

RECURSIVE str_lt(_, _)
\* a < b of two strings
str_lt(a, b) ==
  IF b = <<>> THEN FALSE
  ELSE IF a = <<>> THEN TRUE
  ELSE IF a[1] = b[1] THEN str_lt(Tail(a), Tail(b))
  ELSE CharOrd(a[1]) < CharOrd(b[1])

\* the body of the loop: whether conf is appended to upcoming
appended(conf, cutoff_date, end_date) ==
  LET start_date_str == get(conf, "start_date", <<>>)
  IN  IF start_date_str = <<>> \/ start_date_str = None THEN FALSE
      ELSE LET start_date == fromisoformat(split_T_first(start_date_str))
           IN  IF Raised(start_date) THEN FALSE
               ELSE datetime_le(cutoff_date, start_date) /\ datetime_le(start_date, end_date)

RECURSIVE sorted_by_start_date(_)
\* sorted(upcoming, key=lambda x: x.get('start_date', '')): stable, by the string
sorted_by_start_date(l) ==
  IF l = <<>> THEN <<>>
  ELSE LET rest == sorted_by_start_date(SubSeq(l, 1, Len(l) - 1))
           x == l[Len(l)]
           key(c) == get(c, "start_date", <<>>)
           \* x goes after every element whose key is not greater
           at == Cardinality({i \in 1..Len(rest) : ~str_lt(key(x), key(rest[i]))})
       IN  SubSeq(rest, 1, at) \o <<x>> \o SubSeq(rest, at + 1, Len(rest))

S_date_june == <<"2","0","2","6","-","0","6","-","1","5">>
S_date_time == <<"2","0","2","6","-","1","2","-","0","1","T","0","9",":","0","0">>
S_TBD == <<"T","B","D">>

\* records of the confs.tech list with the start dates the call tells apart
DatedRecords ==
  { ("name" :> S_QA_Day) @@ ("url" :> S_url) @@ ("startDate" :> S_date_june) @@
      ("country" :> S_Germany) @@ ("topics" :> <<S_testing>>),
    \* a start date with a time of day
    ("name" :> S_QA_Day) @@ ("url" :> S_url_other) @@ ("startDate" :> S_date_time) @@
      ("country" :> S_Germany) @@ ("topics" :> <<S_testing>>),
    \* a start date that is no date
    ("name" :> S_QA_Day) @@ ("url" :> S_url) @@ ("startDate" :> S_TBD) @@
      ("country" :> S_Germany) @@ ("topics" :> <<S_testing>>),
    \* no start date
    ("name" :> S_QA_Day) @@ ("url" :> S_url_other) @@
      ("country" :> S_Germany) @@ ("topics" :> <<S_testing>>) }

DatedPayloads ==
  UNION { [1..n -> DatedRecords] : n \in 0..MaxPayload }

InitUpcoming ==
  /\ payload \in DatedPayloads
  /\ now \in Nows
  /\ response = "none"
  /\ probes = EmptyDict
  /\ confs_tech_conferences = <<>>
  /\ unique_conferences = <<>>
  /\ escaped = "none"
  /\ printed = <<>>
  /\ scrape_stage = "input"
  /\ upcoming = <<>>
  /\ BotFresh
  /\ conference = EmptyDict
  /\ user_filters = EmptyDict
  /\ country_axis = "none"
  /\ direction_axis = "none"
  /\ result = "none"
  /\ prev_result = "none"
  /\ stage = "idle"
  /\ change = "none"
  /\ ConcIdle

\* get_upcoming_conferences_from_sources(): the discovery, the window from
\* now to now with its month moved on, the loop and the sort
get_upcoming_conferences_from_sources ==
  /\ scrape_stage = "input"
  /\ \E resp \in Responses :
       LET body == scrape_confs_tech_body(resp, payload)
       IN  \E early_bird \in [ProbedUrls(body.conferences) -> ProbeOutcomes] :
             LET dedup == dedup_loop(body.conferences, {}, <<>>, early_bird)
                 cutoff_date == now
                 end_date == replace_month(cutoff_date, cutoff_date.month + months_ahead)
             IN  /\ response' = resp
                 /\ probes' = early_bird
                 /\ confs_tech_conferences' = body.conferences
                 /\ printed' = <<S_scraping>> \o scrape_prints(body.error)
                 /\ unique_conferences' = IF dedup.error = "none" THEN dedup.unique ELSE <<>>
                 /\ IF dedup.error # "none"
                    THEN escaped' = dedup.error /\ upcoming' = <<>>
                    ELSE IF Raised(end_date)
                    THEN escaped' = "ValueError" /\ upcoming' = <<>>
                    ELSE /\ escaped' = "none"
                         /\ upcoming' = sorted_by_start_date(
                              SelectSeq(dedup.unique,
                                        LAMBDA conf : appended(conf, cutoff_date, end_date)))
  /\ scrape_stage' = "upcoming"
  /\ UNCHANGED <<payload, now, probe_vars, bot_vars, io_vars, conc_vars>>

NextUpcoming == get_upcoming_conferences_from_sources

SpecUpcoming == InitUpcoming /\ [][NextUpcoming]_vars

\* the day months months after d, in the following year where the months run
\* over, on the last day of the month where the month is shorter
MonthsLater(d, months) ==
  LET index == d.month - 1 + months
      year == d.year + (index \div 12)
      month == (index % 12) + 1
  IN  [year |-> year, month |-> month, time |-> d.time,
       day |-> IF d.day <= DaysIn(year, month) THEN d.day ELSE DaysIn(year, month)]

\* the start date of conf is a date from now to months_ahead months later
InWindow(conf) ==
  LET text == get(conf, "start_date", <<>>)
      start_date == fromisoformat(split_T_first(text))
  IN  /\ text # <<>> /\ text # None
      /\ ~Raised(start_date)
      /\ datetime_le(now, start_date)
      /\ datetime_le(start_date, MonthsLater(now, months_ahead))

\* C26: on every day of the year, with months_ahead = 3, the call completes
\* without raising and returns exactly the discovered conferences whose start
\* date lies between now and the date three months later, sorted by start
\* date; records with an empty or unparsable start date are skipped.
C26_UpcomingWindow ==
  scrape_stage = "upcoming" =>
    /\ escaped = "none"
    /\ Range(upcoming) = {c \in Range(unique_conferences) : InWindow(c)}
    /\ Len(upcoming) = Cardinality(Range(upcoming))
    /\ \A i, j \in 1..Len(upcoming) :
         i < j => DateOrd(fromisoformat(split_T_first(upcoming[i]["start_date"])))
                  <= DateOrd(fromisoformat(split_T_first(upcoming[j]["start_date"])))

====
